---- MODULE Spec2Model ----
(***************************************************************************)
(* Model of fabio's main package (src/main.go): the config merger          *)
(* watchBackend, the startup hand-off to startServers, request Lookups on  *)
(* the current routing table, the shutdown handler with initBackend, and   *)
(* the tcp-dynamic listener loop.                                          *)
(*                                                                         *)
(* Texts are sequences of tokens: "\n" is the newline, every other token   *)
(* is the body of one line (a route command). A host key of the table is   *)
(* the sequence of its ":"-separated parts; a listen address is the pair   *)
(* <<":", port>>.                                                          *)
(***************************************************************************)
EXTENDS Integers, Sequences, FiniteSets, TLC

VARIABLES
    backend,      \* cfg.Registry.Backend
    svcChan,      \* message in flight on registry.Default.WatchServices()
    manChan,      \* message in flight on registry.Default.WatchManual()
    nSent,        \* number of messages the registry has sent
    quiet,        \* the registry streams have gone quiet
    pc,           \* position of the watchBackend goroutine
    svccfg, mancfg, nextTable, lastTable, customBE, tableBuffer,
    newT,         \* t, the result of route.NewTable
    onceDone,     \* once (sync.Once)
    firstClosed,  \* number of close(first) executed
    table,        \* the current routing table (route.GetTable / SetTable)
    curIdx,       \* number of tables published so far
    registered,   \* aliases last passed to registry.Default.Register
    mlog,         \* history: operations performed by watchBackend
    observed,     \* history: combined texts in the order they were observed
    published,    \* history: texts of the tables passed to route.SetTable
    evStart,      \* history: snapshot taken when the current event was received
    inProgress,   \* history: events received and not yet fully processed
    latestSvc, latestMan,  \* history: last value taken from each stream
    mainPc,       \* position of main after `go watchBackend(cfg, first)`
    li,           \* loop index of startServers
    spawned,      \* listener adapters started by startServers
    globCaches,   \* number of caches made by route.NewGlobCache
    globCacheOf,  \* the cache held by each listener's proxy, 0 for none
    reqPc, reqListener, reqFloor,  \* request handlers running Lookup
    lastLoad,     \* history: the most recent GetTable of a Lookup
    seenMax,      \* history: newest table index loaded per listener
    connPc, connHost,  \* connections on the https+tcp+sni listener
    connMatch,    \* history: what lookupHostMatcher loaded and returned
    connFwd,      \* history: what the forwarder's lookup loaded
    \* --- startup (initMetrics, initBackend) and the shutdown handler
    metricsTarget,   \* cfg.Metrics.Target
    prof,            \* prof != nil (cfg.ProfileMode != "")
    timeout,         \* cfg.Metrics.Timeout and cfg.Registry.Timeout
    now,             \* time.Now()
    deadline,        \* deadline of the running init loop
    initPc,          \* position of main in initMetrics / initBackend
    registryDefault, \* registry.Default
    shuttingDown,    \* shuttingDown (int32, atomic)
    sigPc,           \* position of the exit.Listen callback
    sigLog,          \* history: calls made by the callback, in order
    everInit,        \* history: registry.Default has been non-nil
    ibLast,          \* history: outcome of the latest step of initBackend's loop
    ibFailAt,        \* history: time.Now() when the latest failure was observed
    \* --- the tcp-dynamic listener goroutine
    dynPc, ports, lastPorts, dynI,
    closeList, closeI,   \* difference(lastPorts, ports) and its loop index
    portHolder,      \* who is bound to each address
    pendingStarts,   \* listener goroutines started and not yet bound
    dynFatal,        \* exit.Fatal was reached by a dynamic listener
    fatalHolder,     \* history: who held the address when that bind failed
    scanned,         \* history: the table loaded by the current tick
    probeResult,     \* history: outcome of this tick's probe, per address
    closedThisTick,  \* history: addresses passed to proxy.CloseProxy this tick
    prevPorts,       \* history: lastPorts as it was when the tick began
    ticks            \* completed ticks

mergerVars == <<pc, svccfg, mancfg, nextTable, lastTable, customBE, tableBuffer,
                newT, onceDone, firstClosed, table, curIdx, registered, mlog,
                observed, published, evStart, inProgress, latestSvc, latestMan>>
envVars    == <<svcChan, manChan, nSent, quiet>>
mainVars   == <<mainPc, li, spawned, globCaches, globCacheOf>>
connVars   == <<connPc, connHost, connMatch, connFwd>>
reqVars    == <<reqPc, reqListener, reqFloor, lastLoad, seenMax, connVars>>

ibHist     == <<ibLast, ibFailAt>>
lifeVars   == <<metricsTarget, prof, timeout, now, deadline, initPc, registryDefault,
                shuttingDown, sigPc, sigLog, everInit, ibHist>>
dynVars    == <<dynPc, ports, lastPorts, dynI, closeList, closeI, portHolder,
                pendingStarts, dynFatal, fatalHolder, scanned, probeResult,
                closedThisTick, prevPorts, ticks>>

vars == <<backend, envVars, mergerVars, mainVars, reqVars, lifeVars, dynVars>>

----------------------------------------------------------------------------
(* Bounds *)
MaxEvents   == 3
MaxRequests == 2

Requests == 1..MaxRequests

None == "none"
NL   == "\n"

(* Values the registry streams deliver. A and B are `route add` commands,  *)
(* L is a `route alias` command, X is a line that does not parse.          *)
SvcTexts    == {<<>>, <<"A">>, <<"X">>}
ManTexts    == {<<>>, <<"B">>, <<"L">>}
CustomTexts == {"OK", "ERR"}

Backends == {"consul", "custom"}

(* cfg.Listen *)
Listen == <<"http", "https+tcp+sni">>

----------------------------------------------------------------------------
(* Route text, parser and table (package route)                            *)

(* Target.Opts: a map that holds the key "proto" or is empty *)
NoOpts == [k \in {} |-> ""]
ProtoOpt(p) == [k \in {"proto"} |-> p]

(* A..E carry no options; G and H carry `opts "proto=..."` that differs    *)
(* from the scheme of their URL                                            *)
RouteDef(c) ==
    CASE c = "A" -> [host |-> <<"", "9000">>,  Scheme |-> "tcp",  Port |-> "5432", Opts |-> NoOpts]
      [] c = "B" -> [host |-> <<"", "9000">>,  Scheme |-> "http", Port |-> "80",   Opts |-> NoOpts]
      [] c = "C" -> [host |-> <<"web">>,       Scheme |-> "tcp",  Port |-> "7000", Opts |-> NoOpts]
      [] c = "D" -> [host |-> <<"h", "9001">>, Scheme |-> "tcp",  Port |-> "9001", Opts |-> NoOpts]
      [] c = "E" -> [host |-> <<"g", "9000">>, Scheme |-> "tcp",  Port |-> "9000", Opts |-> NoOpts]
      [] c = "F" -> [host |-> <<"db">>,        Scheme |-> "tcp",  Port |-> "5432", Opts |-> NoOpts]
      [] c = "G" -> [host |-> <<"db">>,        Scheme |-> "http", Port |-> "80",   Opts |-> ProtoOpt("tcp")]
      [] c = "H" -> [host |-> <<"db">>,        Scheme |-> "tcp",  Port |-> "5433", Opts |-> ProtoOpt("https")]

RouteCmds == {"A", "B", "C", "D", "E", "F", "G", "H"}

(* L is a `route alias` command *)
AliasCmds == {"L"}

RECURSIVE SplitLines(_)
SplitLines(text) ==
    IF \A i \in 1..Len(text) : text[i] # NL
    THEN <<text>>
    ELSE LET k == CHOOSE i \in 1..Len(text) :
                     text[i] = NL /\ \A j \in 1..(i-1) : text[j] # NL
         IN  <<SubSeq(text, 1, k-1)>> \o SplitLines(SubSeq(text, k+1, Len(text)))

LineOk(line) == line = <<>> \/ (Len(line) = 1 /\ line[1] \in RouteCmds \cup AliasCmds)

AddRoute(rts, d) ==
    LET rt == [Targets |-> <<[URL  |-> [Scheme |-> d.Scheme, Port |-> d.Port],
                              Opts |-> d.Opts]>>]
    IN  IF d.host \in DOMAIN rts
        THEN [rts EXCEPT ![d.host] = Append(@, rt)]
        ELSE [h \in DOMAIN rts \cup {d.host} |->
                 IF h = d.host THEN <<rt>> ELSE rts[h]]

EmptyRoutes == [h \in {} |-> <<>>]

RECURSIVE ApplyLines(_, _)
ApplyLines(lines, rts) ==
    IF lines = <<>> THEN rts
    ELSE IF ~LineOk(Head(lines)) THEN rts
    ELSE IF Head(lines) = <<>> \/ Head(lines)[1] \in AliasCmds
         THEN ApplyLines(Tail(lines), rts)
    ELSE ApplyLines(Tail(lines), AddRoute(rts, RouteDef(Head(lines)[1])))

NewTableOk(buf) == \A i \in 1..Len(SplitLines(buf)) : LineOk(SplitLines(buf)[i])

NewTableOf(buf) == [src |-> buf, routes |-> ApplyLines(SplitLines(buf), EmptyRoutes)]

ParseAliases(text) ==
    {SplitLines(text)[i][1] : i \in {j \in 1..Len(SplitLines(text)) :
        Len(SplitLines(text)[j]) = 1 /\ SplitLines(text)[j][1] \in AliasCmds}}

(* route.ParseAliases reports an error: some line of the text does not parse *)
ParseAliasesErr(text) == ~NewTableOk(text)

InitialTable == [src |-> <<>>, routes |-> EmptyRoutes]

----------------------------------------------------------------------------
(* watchBackend                                                            *)

Combine_manFirst(s, m) == m \o <<NL>> \o s

Combine(s, m) == s \o <<NL>> \o m

Log(op, text) == mlog' = Append(mlog, [op |-> op, text |-> text])

LastApplied == IF published = <<>> THEN <<>> ELSE published[Len(published)]

Snapshot == [idx |-> curIdx, table |-> table, lastTable |-> lastTable,
             registered |-> registered, loglen |-> Len(mlog)]

(* The part of the loop body from tableBuffer.Reset() to the comparison    *)
(* with lastTable, for the values s and m of svccfg and mancfg.            *)
Evaluate_neverSkip(s, m) ==
    /\ tableBuffer' = Combine(s, m)
    /\ nextTable' = Combine(s, m)
    /\ observed' = Append(observed, [text |-> Combine(s, m), last |-> LastApplied])
    /\ evStart' = Snapshot
    /\ inProgress' = inProgress + 1
    /\ Log("receive", Combine(s, m))
    /\ pc' = "aliases"

Evaluate(s, m) ==
    /\ tableBuffer' = Combine(s, m)
    /\ nextTable' = Combine(s, m)
    /\ observed' = Append(observed, [text |-> Combine(s, m), last |-> LastApplied])
    /\ evStart' = Snapshot
    /\ IF Combine(s, m) = lastTable
       THEN /\ pc' = "select"
            /\ inProgress' = inProgress
            /\ Log("skip", Combine(s, m))
       ELSE /\ pc' = "aliases"
            /\ inProgress' = inProgress + 1
            /\ Log("receive", Combine(s, m))

SelectSvc_concurrent ==
    /\ backend # "custom"
    /\ svcChan # <<>>
    /\ svccfg' = svcChan[1]
    /\ latestSvc' = svcChan[1]
    /\ svcChan' = <<>>
    /\ Evaluate(svccfg', mancfg)
    /\ UNCHANGED <<lifeVars, dynVars, backend, manChan, nSent, quiet, mancfg, lastTable, customBE,
                   newT, onceDone, firstClosed, table, curIdx, registered,
                   published, latestMan, mainVars, reqVars>>

SelectSvc ==
    /\ backend # "custom"
    /\ pc = "select"
    /\ svcChan # <<>>
    /\ svccfg' = svcChan[1]
    /\ latestSvc' = svcChan[1]
    /\ svcChan' = <<>>
    /\ Evaluate(svccfg', mancfg)
    /\ UNCHANGED <<lifeVars, dynVars, backend, manChan, nSent, quiet, mancfg, lastTable, customBE,
                   newT, onceDone, firstClosed, table, curIdx, registered,
                   published, latestMan, mainVars, reqVars>>

SelectMan ==
    /\ backend # "custom"
    /\ pc = "select"
    /\ manChan # <<>>
    /\ mancfg' = manChan[1]
    /\ latestMan' = manChan[1]
    /\ manChan' = <<>>
    /\ Evaluate(svccfg, mancfg')
    /\ UNCHANGED <<lifeVars, dynVars, backend, svcChan, nSent, quiet, svccfg, lastTable, customBE,
                   newT, onceDone, firstClosed, table, curIdx, registered,
                   published, latestSvc, mainVars, reqVars>>

RegisterAliases_skipOnError ==
    /\ pc = "aliases"
    /\ registered' = IF ParseAliasesErr(nextTable) THEN registered
                     ELSE ParseAliases(nextTable)
    /\ Log("register", nextTable)
    /\ pc' = "newtable"
    /\ UNCHANGED <<lifeVars, dynVars, backend, envVars, svccfg, mancfg, nextTable, lastTable, customBE,
                   tableBuffer, newT, onceDone, firstClosed, table, curIdx,
                   observed, published, evStart, inProgress, latestSvc, latestMan,
                   mainVars, reqVars>>

(* aliases, err := route.ParseAliases(nextTable); if err != nil { log };   *)
(* registry.Default.Register(aliases)                                      *)
RegisterAliases ==
    /\ pc = "aliases"
    /\ registered' = ParseAliases(nextTable)
    /\ Log("register", nextTable)
    /\ pc' = "newtable"
    /\ UNCHANGED <<lifeVars, dynVars, backend, envVars, svccfg, mancfg, nextTable, lastTable, customBE,
                   tableBuffer, newT, onceDone, firstClosed, table, curIdx,
                   observed, published, evStart, inProgress, latestSvc, latestMan,
                   mainVars, reqVars>>

BuildTable_rejectEmpty ==
    /\ pc = "newtable"
    /\ tableBuffer' = <<>>
    /\ IF NewTableOk(tableBuffer) /\ NewTableOf(tableBuffer).routes # EmptyRoutes
       THEN /\ newT' = NewTableOf(tableBuffer)
            /\ pc' = "settable"
            /\ inProgress' = inProgress
            /\ Log("newtable", tableBuffer)
       ELSE /\ newT' = newT
            /\ pc' = "select"
            /\ inProgress' = inProgress - 1
            /\ Log("newtable_error", tableBuffer)
    /\ UNCHANGED <<lifeVars, dynVars, backend, envVars, svccfg, mancfg, nextTable, lastTable, customBE,
                   onceDone, firstClosed, table, curIdx, registered,
                   observed, published, evStart, latestSvc, latestMan,
                   mainVars, reqVars>>

(* t, err := route.NewTable(tableBuffer); if err != nil { log; continue } *)
BuildTable_publishOnError ==
    /\ pc = "newtable"
    /\ tableBuffer' = <<>>
    /\ newT' = NewTableOf(tableBuffer)
    /\ pc' = "settable"
    /\ inProgress' = inProgress
    /\ IF NewTableOk(tableBuffer)
       THEN Log("newtable", tableBuffer)
       ELSE Log("newtable_error", tableBuffer)
    /\ UNCHANGED <<lifeVars, dynVars, backend, envVars, svccfg, mancfg, nextTable, lastTable, customBE,
                   onceDone, firstClosed, table, curIdx, registered,
                   observed, published, evStart, latestSvc, latestMan,
                   mainVars, reqVars>>

BuildTable ==
    /\ pc = "newtable"
    /\ tableBuffer' = <<>>
    /\ IF NewTableOk(tableBuffer)
       THEN /\ newT' = NewTableOf(tableBuffer)
            /\ pc' = "settable"
            /\ inProgress' = inProgress
            /\ Log("newtable", tableBuffer)
       ELSE /\ newT' = newT
            /\ pc' = "select"
            /\ inProgress' = inProgress - 1
            /\ Log("newtable_error", tableBuffer)
    /\ UNCHANGED <<lifeVars, dynVars, backend, envVars, svccfg, mancfg, nextTable, lastTable, customBE,
                   onceDone, firstClosed, table, curIdx, registered,
                   observed, published, evStart, latestSvc, latestMan,
                   mainVars, reqVars>>

(* route.SetTable(t) *)
SetTable_keepOld ==
    /\ pc = "settable"
    /\ table' = table
    /\ curIdx' = curIdx + 1
    /\ published' = Append(published, newT.src)
    /\ Log("settable", newT.src)
    /\ pc' = "logroutes"
    /\ UNCHANGED <<lifeVars, dynVars, backend, envVars, svccfg, mancfg, nextTable, lastTable, customBE,
                   tableBuffer, newT, onceDone, firstClosed, registered,
                   observed, evStart, inProgress, latestSvc, latestMan,
                   mainVars, reqVars>>

SetTable ==
    /\ pc = "settable"
    /\ table' = newT
    /\ curIdx' = curIdx + 1
    /\ published' = Append(published, newT.src)
    /\ Log("settable", newT.src)
    /\ pc' = "logroutes"
    /\ UNCHANGED <<lifeVars, dynVars, backend, envVars, svccfg, mancfg, nextTable, lastTable, customBE,
                   tableBuffer, newT, onceDone, firstClosed, registered,
                   observed, evStart, inProgress, latestSvc, latestMan,
                   mainVars, reqVars>>

(* once.Do(func() { close(first) }) *)
CloseFirst_noOnce ==
    /\ onceDone' = TRUE
    /\ firstClosed' = firstClosed + 1

CloseFirst ==
    IF onceDone
    THEN UNCHANGED <<onceDone, firstClosed>>
    ELSE /\ onceDone' = TRUE
         /\ firstClosed' = firstClosed + 1

LogRoutes_keepLast ==
    /\ pc = "logroutes"
    /\ Log("logroutes", nextTable)
    /\ lastTable' = lastTable
    /\ CloseFirst
    /\ pc' = "select"
    /\ inProgress' = inProgress - 1
    /\ UNCHANGED <<lifeVars, dynVars, backend, envVars, svccfg, mancfg, nextTable, customBE,
                   tableBuffer, newT, table, curIdx, registered,
                   observed, published, evStart, latestSvc, latestMan,
                   mainVars, reqVars>>

(* logRoutes(t, lastTable, nextTable, ...); lastTable = nextTable; once.Do(...) *)
LogRoutes ==
    /\ pc = "logroutes"
    /\ Log("logroutes", nextTable)
    /\ lastTable' = nextTable
    /\ CloseFirst
    /\ pc' = "select"
    /\ inProgress' = inProgress - 1
    /\ UNCHANGED <<lifeVars, dynVars, backend, envVars, svccfg, mancfg, nextTable, customBE,
                   tableBuffer, newT, table, curIdx, registered,
                   observed, published, evStart, latestSvc, latestMan,
                   mainVars, reqVars>>

CustomRecv_signalOnOk ==
    /\ backend = "custom"
    /\ pc = "select"
    /\ svcChan # <<>>
    /\ customBE' = svcChan[1]
    /\ svcChan' = <<>>
    /\ Log(IF svcChan[1] # "OK" THEN "custom_error" ELSE "custom_ok", svcChan)
    /\ IF svcChan[1] = "OK" THEN CloseFirst ELSE UNCHANGED <<onceDone, firstClosed>>
    /\ UNCHANGED <<lifeVars, dynVars, backend, manChan, nSent, quiet, pc, svccfg, mancfg, nextTable,
                   lastTable, tableBuffer, newT, table, curIdx, registered,
                   observed, published, evStart, inProgress, latestSvc, latestMan,
                   mainVars, reqVars>>

(* case "custom": customBE = <-svc; log if not "OK"; once.Do(...) *)
CustomRecv ==
    /\ backend = "custom"
    /\ pc = "select"
    /\ svcChan # <<>>
    /\ customBE' = svcChan[1]
    /\ svcChan' = <<>>
    /\ Log(IF svcChan[1] # "OK" THEN "custom_error" ELSE "custom_ok", svcChan)
    /\ CloseFirst
    /\ UNCHANGED <<lifeVars, dynVars, backend, manChan, nSent, quiet, pc, svccfg, mancfg, nextTable,
                   lastTable, tableBuffer, newT, table, curIdx, registered,
                   observed, published, evStart, inProgress, latestSvc, latestMan,
                   mainVars, reqVars>>

Merger == SelectSvc \/ SelectMan \/ RegisterAliases \/ BuildTable \/ SetTable
             \/ LogRoutes \/ CustomRecv

----------------------------------------------------------------------------
(* The registry: producers of the svc and man streams                      *)

SendSvc ==
    /\ ~quiet
    /\ nSent < MaxEvents
    /\ svcChan = <<>>
    /\ \E v \in (IF backend = "custom" THEN CustomTexts ELSE SvcTexts) : svcChan' = <<v>>
    /\ nSent' = nSent + 1
    /\ UNCHANGED <<lifeVars, dynVars, backend, manChan, quiet, mergerVars, mainVars, reqVars>>

SendMan ==
    /\ ~quiet
    /\ backend # "custom"
    /\ nSent < MaxEvents
    /\ manChan = <<>>
    /\ \E v \in ManTexts : manChan' = <<v>>
    /\ nSent' = nSent + 1
    /\ UNCHANGED <<lifeVars, dynVars, backend, svcChan, quiet, mergerVars, mainVars, reqVars>>

GoQuiet ==
    /\ ~quiet
    /\ quiet' = TRUE
    /\ UNCHANGED <<lifeVars, dynVars, backend, svcChan, manChan, nSent, mergerVars, mainVars, reqVars>>

----------------------------------------------------------------------------
(* main: <-first; startServers(cfg)                                        *)

WaitFirst ==
    /\ mainPc = "wait"
    /\ firstClosed > 0
    /\ mainPc' = "startServers"
    /\ li' = 1
    /\ UNCHANGED <<lifeVars, dynVars, backend, envVars, mergerVars, spawned, reqVars,
                   globCaches, globCacheOf>>

(* the cases of startServers that call newHTTPProxy or newGrpcProxy, each  *)
(* of which calls route.NewGlobCache(cfg.GlobCacheSize)                    *)
MakesProxy(proto) == proto \in {"http", "https", "grpc", "grpcs", "https+tcp+sni"}

StartServer ==
    /\ mainPc = "startServers"
    /\ IF li <= Len(Listen)
       THEN /\ spawned' = spawned \cup {li}
            /\ IF MakesProxy(Listen[li])
               THEN /\ globCaches' = globCaches + 1
                    /\ globCacheOf' = [globCacheOf EXCEPT ![li] = globCaches + 1]
               ELSE UNCHANGED <<globCaches, globCacheOf>>
            /\ li' = li + 1
            /\ mainPc' = mainPc
       ELSE /\ mainPc' = "serving"
            /\ UNCHANGED <<spawned, li, globCaches, globCacheOf>>
    /\ UNCHANGED <<lifeVars, dynVars, backend, envVars, mergerVars, reqVars>>

----------------------------------------------------------------------------
(* Request handlers: Lookup calls route.GetTable() once                    *)

Max(a, b) == IF a >= b THEN a ELSE b

(* Requests are numbered in the order in which their Lookup starts.        *)
LookupStart(r) ==
    /\ reqPc[r] = "idle"
    /\ \A q \in Requests : q < r => reqPc[q] # "idle"
    /\ \E l \in spawned :
          /\ reqListener' = [reqListener EXCEPT ![r] = l]
          /\ reqFloor' = [reqFloor EXCEPT ![r] = seenMax[l]]
    /\ reqPc' = [reqPc EXCEPT ![r] = "started"]
    /\ UNCHANGED <<lifeVars, dynVars, backend, envVars, mergerVars, mainVars, lastLoad, seenMax,
                   connVars>>

LookupLoad_stale(r) ==
    /\ reqPc[r] = "started"
    /\ \E i \in 0..curIdx :
          /\ lastLoad' = [listener |-> reqListener[r], floor |-> reqFloor[r], idx |-> i]
          /\ seenMax' = [seenMax EXCEPT ![reqListener[r]] = Max(@, i)]
    /\ reqPc' = [reqPc EXCEPT ![r] = "done"]
    /\ reqListener' = [reqListener EXCEPT ![r] = 0]
    /\ reqFloor' = [reqFloor EXCEPT ![r] = 0]
    /\ UNCHANGED <<lifeVars, dynVars, backend, envVars, mergerVars, mainVars, connVars>>

(* t := route.GetTable().Lookup(...) *)
LookupLoad(r) ==
    /\ reqPc[r] = "started"
    /\ lastLoad' = [listener |-> reqListener[r], floor |-> reqFloor[r], idx |-> curIdx]
    /\ seenMax' = [seenMax EXCEPT ![reqListener[r]] = Max(@, curIdx)]
    /\ reqPc' = [reqPc EXCEPT ![r] = "done"]
    /\ reqListener' = [reqListener EXCEPT ![r] = 0]
    /\ reqFloor' = [reqFloor EXCEPT ![r] = 0]
    /\ UNCHANGED <<lifeVars, dynVars, backend, envVars, mergerVars, mainVars, connVars>>

RequestStart == \E r \in Requests : LookupStart(r)
RequestLoad  == \E r \in Requests : LookupLoad(r)

----------------------------------------------------------------------------
(* Startup: initMetrics and initBackend, on the main goroutine             *)

MaxTimeout == 1
MaxClock   == 2 * MaxTimeout + 2

Nil == "nil"
AllBackends == {"file", "static", "consul", "custom"}

(* Time passes; the model stops the clock at MaxClock once the deadline of  *)
(* the running loop is behind it                                           *)
Tick ==
    /\ now < MaxClock \/ now <= deadline
    /\ now' = now + 1
    /\ UNCHANGED <<backend, envVars, mergerVars, mainVars, reqVars, dynVars,
                   metricsTarget, prof, timeout, deadline, initPc, registryDefault,
                   shuttingDown, sigPc, sigLog, everInit, ibHist>>

InitMetricsStart ==
    /\ initPc = "m_start"
    /\ IF metricsTarget = ""
       THEN initPc' = "b_start" /\ deadline' = deadline
       ELSE initPc' = "m_attempt" /\ deadline' = now + timeout
    /\ UNCHANGED <<backend, envVars, mergerVars, mainVars, reqVars, dynVars,
                   metricsTarget, prof, timeout, now, registryDefault,
                   shuttingDown, sigPc, sigLog, everInit, ibHist>>

(* metrics.NewRegistry twice; return, exit.Fatal after the deadline, or sleep *)
InitMetricsAttempt ==
    /\ initPc = "m_attempt"
    /\ \E ok \in BOOLEAN :
          initPc' = IF ok THEN "b_start"
                    ELSE IF now > deadline THEN "fatal" ELSE "m_sleep"
    /\ UNCHANGED <<backend, envVars, mergerVars, mainVars, reqVars, dynVars,
                   metricsTarget, prof, timeout, now, deadline, registryDefault,
                   shuttingDown, sigPc, sigLog, everInit, ibHist>>

(* time.Sleep(cfg.Metrics.Retry); if atomic.LoadInt32(&shuttingDown) > 0 { exit.Exit(1) } *)
InitMetricsAfterSleep ==
    /\ initPc = "m_sleep"
    /\ initPc' = IF shuttingDown > 0 THEN "exit1" ELSE "m_attempt"
    /\ UNCHANGED <<backend, envVars, mergerVars, mainVars, reqVars, dynVars,
                   metricsTarget, prof, timeout, now, deadline, registryDefault,
                   shuttingDown, sigPc, sigLog, everInit, ibHist>>

InitBackendStart ==
    /\ initPc = "b_start"
    /\ deadline' = now + timeout
    /\ initPc' = "b_attempt"
    /\ UNCHANGED <<backend, envVars, mergerVars, mainVars, reqVars, dynVars,
                   metricsTarget, prof, timeout, now, registryDefault,
                   shuttingDown, sigPc, sigLog, everInit, ibHist>>

AfterFailedAttempt == IF now > deadline THEN "fatal" ELSE "b_sleep"

(* registry.Default, err = X.NewBackend(...) *)
InitBackendCreate ==
    /\ initPc = "b_attempt"
    /\ IF backend \notin AllBackends
       THEN /\ initPc' = "fatal"
            /\ ibLast' = "unknown_backend"
            /\ UNCHANGED <<registryDefault, everInit, ibFailAt>>
       ELSE \E ok \in BOOLEAN :
              IF ok
              THEN /\ registryDefault' = "backend"
                   /\ everInit' = TRUE
                   /\ initPc' = "b_register"
                   /\ ibLast' = "created"
                   /\ ibFailAt' = ibFailAt
              ELSE /\ registryDefault' = Nil
                   /\ everInit' = everInit
                   /\ initPc' = AfterFailedAttempt
                   /\ ibLast' = "create_failed"
                   /\ ibFailAt' = now
    /\ UNCHANGED <<backend, envVars, mergerVars, mainVars, reqVars, dynVars,
                   metricsTarget, prof, timeout, now, deadline,
                   shuttingDown, sigPc, sigLog>>

InitBackendRegister_returnOnError ==
    /\ initPc = "b_register"
    /\ \E ok \in BOOLEAN :
          /\ initPc' = "running"
          /\ ibLast' = IF ok THEN "registered" ELSE "register_failed"
          /\ ibFailAt' = IF ok THEN ibFailAt ELSE now
    /\ UNCHANGED <<backend, envVars, mergerVars, mainVars, reqVars, dynVars,
                   metricsTarget, prof, timeout, now, deadline, registryDefault,
                   shuttingDown, sigPc, sigLog, everInit>>

(* if err = registry.Default.Register(nil); err == nil { return } *)
InitBackendRegister ==
    /\ initPc = "b_register"
    /\ \E ok \in BOOLEAN :
          /\ initPc' = IF ok THEN "running" ELSE AfterFailedAttempt
          /\ ibLast' = IF ok THEN "registered" ELSE "register_failed"
          /\ ibFailAt' = IF ok THEN ibFailAt ELSE now
    /\ UNCHANGED <<backend, envVars, mergerVars, mainVars, reqVars, dynVars,
                   metricsTarget, prof, timeout, now, deadline, registryDefault,
                   shuttingDown, sigPc, sigLog, everInit>>

InitBackendAfterSleep_noCheck ==
    /\ initPc = "b_sleep"
    /\ initPc' = "b_attempt"
    /\ UNCHANGED <<backend, envVars, mergerVars, mainVars, reqVars, dynVars,
                   metricsTarget, prof, timeout, now, deadline, registryDefault,
                   shuttingDown, sigPc, sigLog, everInit, ibHist>>

(* time.Sleep(cfg.Registry.Retry); if atomic.LoadInt32(&shuttingDown) > 0 { exit.Exit(1) } *)
InitBackendAfterSleep ==
    /\ initPc = "b_sleep"
    /\ initPc' = IF shuttingDown > 0 THEN "exit1" ELSE "b_attempt"
    /\ UNCHANGED <<backend, envVars, mergerVars, mainVars, reqVars, dynVars,
                   metricsTarget, prof, timeout, now, deadline, registryDefault,
                   shuttingDown, sigPc, sigLog, everInit, ibHist>>

----------------------------------------------------------------------------
(* The callback given to exit.Listen                                       *)

SigFrame == UNCHANGED <<backend, envVars, mergerVars, mainVars, reqVars, dynVars,
                        metricsTarget, prof, timeout, now, deadline, initPc,
                        registryDefault, everInit, ibHist>>

Signal ==
    /\ sigPc = "idle"
    /\ sigPc' = "flag"
    /\ UNCHANGED <<shuttingDown, sigLog>>
    /\ SigFrame

(* atomic.StoreInt32(&shuttingDown, 1) *)
SigSetFlag_skipShutdown ==
    /\ sigPc = "flag"
    /\ shuttingDown' = 1
    /\ sigLog' = Append(sigLog, "flag")
    /\ sigPc' = "checkreg"
    /\ SigFrame

SigSetFlag ==
    /\ sigPc = "flag"
    /\ shuttingDown' = 1
    /\ sigLog' = Append(sigLog, "flag")
    /\ sigPc' = "shutdown"
    /\ SigFrame

(* proxy.Shutdown(cfg.Proxy.ShutdownWait): the call, then its return *)
SigShutdownCall ==
    /\ sigPc = "shutdown"
    /\ sigLog' = Append(sigLog, "shutdown_call")
    /\ sigPc' = "draining"
    /\ UNCHANGED shuttingDown
    /\ SigFrame

SigShutdownReturn ==
    /\ sigPc = "draining"
    /\ sigLog' = Append(sigLog, "shutdown_return")
    /\ sigPc' = "prof"
    /\ UNCHANGED shuttingDown
    /\ SigFrame

(* if prof != nil { prof.Stop() } *)
SigProfStop ==
    /\ sigPc = "prof"
    /\ sigLog' = IF prof THEN Append(sigLog, "prof_stop") ELSE sigLog
    /\ sigPc' = "checkreg"
    /\ UNCHANGED shuttingDown
    /\ SigFrame

(* if registry.Default == nil { return } *)
SigCheckRegistry ==
    /\ sigPc = "checkreg"
    /\ sigPc' = IF registryDefault = Nil THEN "returned" ELSE "deregister"
    /\ sigLog' = Append(sigLog, IF registryDefault = Nil THEN "no_registry" ELSE "has_registry")
    /\ UNCHANGED shuttingDown
    /\ SigFrame

(* registry.Default.DeregisterAll(): registry.Default is read again; a call *)
(* through a nil interface panics                                          *)
SigDeregister ==
    /\ sigPc = "deregister"
    /\ IF registryDefault = Nil
       THEN /\ sigLog' = Append(sigLog, "nil_panic")
            /\ sigPc' = "panic"
       ELSE /\ sigLog' = Append(sigLog, "deregister_all")
            /\ sigPc' = "returned"
    /\ UNCHANGED shuttingDown
    /\ SigFrame

----------------------------------------------------------------------------
(* startServers, case "tcp-dynamic"                                        *)

MaxPublish == 2
MaxTicks   == 2

(* Tables the merger publishes while the listener loop runs *)
DynTexts == {<<>>, <<"A">>, <<"A", NL, "B">>, <<"C">>, <<"D">>, <<"A", NL, "E">>,
             <<"D", NL, "E">>}

Addr(p) == <<":", p>>
AllAddrs == {Addr(p) : p \in {"9000", "9001", "5432", "7000", "80"}}
ExtAddrs == {Addr("9000")}

Range(f) == {f[i] : i \in DOMAIN f}

RECURSIVE unique(_)
unique(strSlice) ==
    IF strSlice = <<>> THEN <<>>
    ELSE LET front == unique(SubSeq(strSlice, 1, Len(strSlice) - 1))
             entry == strSlice[Len(strSlice)]
         IN  IF entry \in Range(front) THEN front ELSE Append(front, entry)

RECURSIVE difference(_, _)
difference(a, b) ==
    IF a = <<>> THEN <<>>
    ELSE IF Head(a) \in Range(b) THEN difference(Tail(a), b)
    ELSE <<Head(a)>> \o difference(Tail(a), b)

RECURSIVE TargetSchemes(_)
TargetSchemes(targets) ==
    IF targets = <<>> THEN <<>>
    ELSE <<Head(targets).URL.Scheme>> \o TargetSchemes(Tail(targets))

RECURSIVE AllSchemes(_)
AllSchemes(r) ==
    IF r = <<>> THEN <<>>
    ELSE TargetSchemes(Head(r).Targets) \o AllSchemes(Tail(r))

tableSchemes(r) == unique(AllSchemes(r))

(* len(schemes) == 1 && schemes[0] == "tcp" *)
OnlyTcp_anyTcp(schemes) == "tcp" \in Range(schemes)

OnlyTcp(schemes) == Len(schemes) = 1 /\ schemes[1] = "tcp"

(* The body of `for target, rts := range table`, over the keys in the      *)
(* order the map iteration yields them                                     *)
RECURSIVE ScanPorts(_, _, _)
ScanPorts(order, rts, acc) ==
    IF order = <<>> THEN acc
    ELSE LET target == Head(order)
             added  == IF Len(target) > 1 /\ OnlyTcp(tableSchemes(rts[target]))
                       THEN Append(acc, Addr(target[2]))
                       ELSE acc
         IN  ScanPorts(Tail(order), rts, unique(added))

Orders(S) == {o \in [1..Cardinality(S) -> S] : \A i, j \in DOMAIN o : i # j => o[i] # o[j]}

DynFrame == UNCHANGED <<backend, envVars, mainVars, reqVars, lifeVars,
                        pc, svccfg, mancfg, nextTable, lastTable, customBE,
                        tableBuffer, newT, onceDone, firstClosed, registered, mlog,
                        observed, published, evStart, inProgress, latestSvc, latestMan>>

(* route.SetTable by the merger, seen from the listener loop *)
DynPublish ==
    /\ curIdx < MaxPublish + 1
    /\ \E text \in DynTexts : table' = NewTableOf(text)
    /\ curIdx' = curIdx + 1
    /\ UNCHANGED dynVars
    /\ DynFrame

(* time.Sleep(l.Refresh); table := route.GetTable(); ports computed *)
DynScan ==
    /\ dynPc = "sleep"
    /\ ~dynFatal
    /\ ticks < MaxTicks
    /\ \E order \in Orders(DOMAIN table.routes) :
          ports' = ScanPorts(order, table.routes, <<>>)
    /\ scanned' = table
    /\ prevPorts' = lastPorts
    /\ probeResult' = [a \in AllAddrs |-> None]
    /\ closedThisTick' = <<>>
    /\ closeList' = difference(lastPorts, ports')
    /\ closeI' = 1
    /\ dynPc' = "close"
    /\ UNCHANGED <<table, curIdx, lastPorts, dynI, portHolder, pendingStarts,
                   dynFatal, fatalHolder, ticks>>
    /\ DynFrame

(* for _, port := range difference(lastPorts, ports) { proxy.CloseProxy(port) } *)
DynClose ==
    /\ dynPc = "close"
    /\ IF closeI <= Len(closeList)
       THEN /\ portHolder' = [portHolder EXCEPT ![closeList[closeI]] =
                                 IF @ = "dyn" THEN "free" ELSE @]
            /\ closedThisTick' = Append(closedThisTick, closeList[closeI])
            /\ closeI' = closeI + 1
            /\ UNCHANGED <<dynPc, dynI>>
       ELSE /\ dynPc' = "probe"
            /\ dynI' = 1
            /\ UNCHANGED <<portHolder, closedThisTick, closeI>>
    /\ UNCHANGED <<table, curIdx, ports, lastPorts, closeList, pendingStarts,
                   dynFatal, fatalHolder, scanned, probeResult, prevPorts, ticks>>
    /\ DynFrame

(* conn, err := net.Listen("tcp", port); if err != nil { continue }; after *)
(* the last port: lastPorts = ports                                        *)
DynProbeListen ==
    /\ dynPc = "probe"
    /\ IF dynI <= Len(ports)
       THEN IF portHolder[ports[dynI]] = "free"
            THEN /\ portHolder' = [portHolder EXCEPT ![ports[dynI]] = "probe"]
                 /\ probeResult' = [probeResult EXCEPT ![ports[dynI]] = "free"]
                 /\ dynPc' = "probeClose"
                 /\ UNCHANGED <<dynI, lastPorts, ticks>>
            ELSE /\ probeResult' = [probeResult EXCEPT ![ports[dynI]] = "inuse"]
                 /\ dynI' = dynI + 1
                 /\ UNCHANGED <<dynPc, portHolder, lastPorts, ticks>>
       ELSE /\ lastPorts' = ports
            /\ dynPc' = "sleep"
            /\ ticks' = ticks + 1
            /\ UNCHANGED <<dynI, portHolder, probeResult>>
    /\ UNCHANGED <<table, curIdx, ports, closeList, closeI, pendingStarts,
                   dynFatal, fatalHolder, scanned, closedThisTick, prevPorts>>
    /\ DynFrame

(* conn.Close(); go func() { ... proxy.ListenAndServeTCP(l, h, tlscfg) ... }() *)
DynProbeClose ==
    /\ dynPc = "probeClose"
    /\ portHolder' = [portHolder EXCEPT ![ports[dynI]] = "free"]
    /\ pendingStarts' = [pendingStarts EXCEPT ![ports[dynI]] = @ + 1]
    /\ probeResult' = [probeResult EXCEPT ![ports[dynI]] = "started"]
    /\ dynI' = dynI + 1
    /\ dynPc' = "probe"
    /\ UNCHANGED <<table, curIdx, ports, lastPorts, closeList, closeI,
                   dynFatal, fatalHolder, scanned, closedThisTick, prevPorts, ticks>>
    /\ DynFrame

(* the listener goroutine: l.Addr = port; proxy.ListenAndServeTCP binds or *)
(* returns an error, which is fatal                                        *)
DynListenerBind ==
    /\ ~dynFatal
    /\ \E a \in AllAddrs :
          /\ pendingStarts[a] > 0
          /\ pendingStarts' = [pendingStarts EXCEPT ![a] = @ - 1]
          /\ IF portHolder[a] = "free"
             THEN /\ portHolder' = [portHolder EXCEPT ![a] = "dyn"]
                  /\ UNCHANGED <<dynFatal, fatalHolder>>
             ELSE /\ portHolder' = portHolder
                  /\ dynFatal' = TRUE
                  /\ fatalHolder' = portHolder[a]
    /\ UNCHANGED <<table, curIdx, dynPc, ports, lastPorts, dynI, closeList, closeI,
                   scanned, probeResult, closedThisTick, prevPorts, ticks>>
    /\ DynFrame

(* another process binds or releases an address *)
ExtBind ==
    /\ \E a \in ExtAddrs :
          /\ portHolder[a] = "free"
          /\ portHolder' = [portHolder EXCEPT ![a] = "ext"]
    /\ UNCHANGED <<table, curIdx, dynPc, ports, lastPorts, dynI, closeList, closeI,
                   pendingStarts, dynFatal, fatalHolder, scanned, probeResult, closedThisTick,
                   prevPorts, ticks>>
    /\ DynFrame

ExtRelease ==
    /\ \E a \in ExtAddrs :
          /\ portHolder[a] = "ext"
          /\ portHolder' = [portHolder EXCEPT ![a] = "free"]
    /\ UNCHANGED <<table, curIdx, dynPc, ports, lastPorts, dynI, closeList, closeI,
                   pendingStarts, dynFatal, fatalHolder, scanned, probeResult, closedThisTick,
                   prevPorts, ticks>>
    /\ DynFrame

----------------------------------------------------------------------------
(* Connections on an https+tcp+sni listener: lookupHostMatcher, then the   *)
(* forwarder chosen by its result                                          *)

MaxConns == 1
Conns == 1..MaxConns

(* server names of the incoming ClientHello *)
SniHosts == {"db", "web", "zz"}

(* Tables the merger publishes while connections are handled *)
ConnTexts == {<<>>, <<"F">>, <<"G">>, <<"H">>, <<"C">>, <<"F", NL, "H">>}

(* a nil *route.Target and a nil *url.URL *)
NilTarget == [nil |-> TRUE]
NilURL    == [Scheme |-> "", Port |-> ""]

AllTargets(r) == UNION {Range(r[i].Targets) : i \in DOMAIN r}

(* route.Table.LookupHost(host, pick): the targets that pick can return    *)
(* for the host, nil when the table has no route for it                    *)
LookupHost(t, host) ==
    IF <<host>> \in DOMAIN t.routes /\ AllTargets(t.routes[<<host>>]) # {}
    THEN AllTargets(t.routes[<<host>>])
    ELSE {NilTarget}

lookupHostMatcher_schemeOnly(t) ==
    IF t = NilTarget THEN FALSE ELSE "tcp" = t.URL.Scheme

(* if t == nil { return false }; proto from t.Opts["proto"], else from     *)
(* t.URL.Scheme when t.URL != nil; return "tcp" == proto                   *)
lookupHostMatcher(t) ==
    IF t = NilTarget THEN FALSE
    ELSE LET proto == IF "proto" \in DOMAIN t.Opts THEN t.Opts["proto"]
                      ELSE IF t.URL # NilURL THEN t.URL.Scheme
                      ELSE ""
         IN  "tcp" = proto

ConnFrame == UNCHANGED <<backend, envVars, mainVars, lifeVars, dynVars,
                         reqPc, reqListener, reqFloor, lastLoad, seenMax,
                         pc, svccfg, mancfg, nextTable, lastTable, customBE,
                         tableBuffer, newT, onceDone, firstClosed, registered, mlog,
                         observed, published, evStart, inProgress, latestSvc, latestMan>>

(* route.SetTable by the merger, seen from the connection handlers; the    *)
(* merger skips a text equal to the last one applied                       *)
ConnPublish ==
    /\ curIdx < MaxPublish + 1
    /\ \E text \in ConnTexts \ {table.src} : table' = NewTableOf(text)
    /\ curIdx' = curIdx + 1
    /\ UNCHANGED connVars
    /\ ConnFrame

(* a connection arrives and its ClientHello is peeked; connections are     *)
(* numbered in the order of arrival                                        *)
ConnAccept ==
    /\ \E c \in Conns :
          /\ connPc[c] = "idle"
          /\ \A d \in Conns : d < c => connPc[d] # "idle"
          /\ \E h \in SniHosts : connHost' = [connHost EXCEPT ![c] = h]
          /\ connPc' = [connPc EXCEPT ![c] = "hello"]
    /\ UNCHANGED <<table, curIdx, connMatch, connFwd>>
    /\ ConnFrame

(* lookupHostMatcher(cfg)(host): t := route.GetTable().LookupHost(host, pick) *)
ConnMatch ==
    /\ \E c \in Conns :
          /\ connPc[c] = "hello"
          /\ \E t \in LookupHost(table, connHost[c]) :
                /\ connMatch' = [connMatch EXCEPT ![c] =
                                    [idx |-> curIdx, src |-> table.src, target |-> t,
                                     result |-> lookupHostMatcher(t)]]
                /\ connPc' = [connPc EXCEPT ![c] =
                                 IF lookupHostMatcher(t) THEN "sni" ELSE "http"]
    /\ UNCHANGED <<table, curIdx, connHost, connFwd>>
    /\ ConnFrame

(* tcp.SNIProxy.Lookup = lookupHostFn(cfg): route.GetTable().LookupHost(host, pick) *)
ConnSniLookup ==
    /\ \E c \in Conns :
          /\ connPc[c] = "sni"
          /\ \E t \in LookupHost(table, connHost[c]) :
                connFwd' = [connFwd EXCEPT ![c] =
                               [kind |-> "sni", idx |-> curIdx, src |-> table.src,
                                target |-> t]]
          /\ connPc' = [connPc EXCEPT ![c] = "done"]
    /\ UNCHANGED <<table, curIdx, connHost, connMatch>>
    /\ ConnFrame

(* proxy.HTTPProxy.Lookup of newHTTPProxy: route.GetTable().Lookup(r, ...) *)
ConnHttpLookup ==
    /\ \E c \in Conns :
          /\ connPc[c] = "http"
          /\ \E t \in LookupHost(table, connHost[c]) :
                connFwd' = [connFwd EXCEPT ![c] =
                               [kind |-> "http", idx |-> curIdx, src |-> table.src,
                                target |-> t]]
          /\ connPc' = [connPc EXCEPT ![c] = "done"]
    /\ UNCHANGED <<table, curIdx, connHost, connMatch>>
    /\ ConnFrame

----------------------------------------------------------------------------
Init0 ==
    /\ svcChan = <<>> /\ manChan = <<>> /\ nSent = 0 /\ quiet = FALSE
    /\ pc = "select"
    /\ svccfg = <<>> /\ mancfg = <<>> /\ nextTable = <<>> /\ lastTable = <<>>
    /\ customBE = "" /\ tableBuffer = <<>>
    /\ newT = InitialTable
    /\ onceDone = FALSE /\ firstClosed = 0
    /\ registered = {}
    /\ mlog = <<>> /\ observed = <<>> /\ published = <<>>
    /\ evStart = [idx |-> 0, table |-> InitialTable, lastTable |-> <<>>,
                  registered |-> {}, loglen |-> 0]
    /\ inProgress = 0
    /\ latestSvc = <<>> /\ latestMan = <<>>
    /\ mainPc = "wait" /\ li = 1 /\ spawned = {}
    /\ globCaches = 0 /\ globCacheOf = [l \in 1..Len(Listen) |-> 0]
    /\ reqPc = [r \in Requests |-> "idle"]
    /\ reqListener = [r \in Requests |-> 0]
    /\ lastLoad = [listener |-> 0, floor |-> 0, idx |-> 0]
    /\ reqFloor = [r \in Requests |-> 0]
    /\ seenMax = [l \in 1..Len(Listen) |-> 0]
    /\ connPc = [c \in Conns |-> "idle"]
    /\ connHost = [c \in Conns |-> ""]
    /\ connMatch = [c \in Conns |-> [idx |-> 0, src |-> <<>>, target |-> NilTarget,
                                     result |-> FALSE]]
    /\ connFwd = [c \in Conns |-> [kind |-> None, idx |-> 0, src |-> <<>>,
                                   target |-> NilTarget]]

(* main has finished initMetrics and initBackend *)
LifeDone ==
    /\ metricsTarget = "" /\ prof = FALSE /\ timeout = 0 /\ now = 0 /\ deadline = 0
    /\ initPc = "running" /\ registryDefault = "backend" /\ shuttingDown = 0
    /\ sigPc = "idle" /\ sigLog = <<>> /\ everInit = TRUE
    /\ ibLast = "registered" /\ ibFailAt = 0

(* no tcp-dynamic listener is configured *)
DynIdle ==
    /\ dynPc = "sleep" /\ ports = <<>> /\ lastPorts = <<>> /\ dynI = 1
    /\ closeList = <<>> /\ closeI = 1
    /\ portHolder = [a \in {} |-> "free"]
    /\ pendingStarts = [a \in {} |-> 0]
    /\ dynFatal = FALSE /\ fatalHolder = None
    /\ scanned = InitialTable
    /\ probeResult = [a \in {} |-> None]
    /\ closedThisTick = <<>> /\ prevPorts = <<>> /\ ticks = 0

(* The config merger with main waiting for the first table *)
Init ==
    /\ backend \in Backends
    /\ table = InitialTable /\ curIdx = 0
    /\ Init0 /\ LifeDone /\ DynIdle

Next ==
    \/ SendSvc \/ SendMan \/ GoQuiet
    \/ SelectSvc \/ SelectMan \/ RegisterAliases \/ BuildTable \/ SetTable
    \/ LogRoutes \/ CustomRecv
    \/ WaitFirst \/ StartServer

Spec == Init /\ [][Next]_vars

(* The same, with the merger goroutine and main scheduled fairly *)
MainStep == WaitFirst \/ StartServer

FairSpec == Spec /\ WF_vars(Merger) /\ WF_vars(MainStep)

(* Requests on the started listeners while the service stream keeps        *)
(* publishing tables                                                       *)
LookupNext ==
    \/ SendSvc
    \/ SelectSvc \/ RegisterAliases \/ BuildTable \/ SetTable \/ LogRoutes
    \/ CustomRecv
    \/ WaitFirst \/ StartServer
    \/ RequestStart \/ RequestLoad

LookupSpec == Init /\ [][LookupNext]_vars

(* Startup racing with the shutdown signal *)
LifeInit ==
    /\ backend \in Backends \cup {"bogus"}
    /\ table = InitialTable /\ curIdx = 0
    /\ Init0 /\ DynIdle
    /\ metricsTarget \in {"", "statsd"} /\ prof \in BOOLEAN
    /\ timeout \in 0..MaxTimeout
    /\ now = 0 /\ deadline = 0
    /\ initPc = "m_start" /\ registryDefault = Nil /\ shuttingDown = 0
    /\ sigPc = "idle" /\ sigLog = <<>> /\ everInit = FALSE
    /\ ibLast = None /\ ibFailAt = 0

LifeNext ==
    \/ Tick
    \/ InitMetricsStart \/ InitMetricsAttempt \/ InitMetricsAfterSleep
    \/ InitBackendStart \/ InitBackendCreate \/ InitBackendRegister
    \/ InitBackendAfterSleep
    \/ Signal \/ SigSetFlag \/ SigShutdownCall \/ SigShutdownReturn
    \/ SigProfStop \/ SigCheckRegistry \/ SigDeregister

LifeSpec == LifeInit /\ [][LifeNext]_vars

(* The same, with main scheduled fairly and time passing *)
InitStep ==
    \/ InitMetricsStart \/ InitMetricsAttempt \/ InitMetricsAfterSleep
    \/ InitBackendStart \/ InitBackendCreate \/ InitBackendRegister
    \/ InitBackendAfterSleep

LifeFairSpec == LifeSpec /\ WF_vars(InitStep) /\ WF_vars(Tick)

(* The tcp-dynamic listener loop, started by startServers after the first  *)
(* table, with the merger publishing tables and other processes using ports *)
DynInit ==
    /\ backend \in Backends \ {"custom"}
    /\ \E text \in DynTexts : table = NewTableOf(text)
    /\ curIdx = 1
    /\ Init0 /\ LifeDone
    /\ dynPc = "sleep" /\ ports = <<>> /\ lastPorts = <<>> /\ dynI = 1
    /\ closeList = <<>> /\ closeI = 1
    /\ portHolder = [a \in AllAddrs |-> "free"]
    /\ pendingStarts = [a \in AllAddrs |-> 0]
    /\ dynFatal = FALSE /\ fatalHolder = None
    /\ scanned = InitialTable
    /\ probeResult = [a \in AllAddrs |-> None]
    /\ closedThisTick = <<>> /\ prevPorts = <<>> /\ ticks = 0

DynNext ==
    \/ DynPublish \/ DynScan \/ DynClose \/ DynProbeListen \/ DynProbeClose
    \/ DynListenerBind \/ ExtBind \/ ExtRelease

DynSpec == DynInit /\ [][DynNext]_vars

(* Connections on the https+tcp+sni listener, started by startServers      *)
(* after the first table, with the merger publishing tables                *)
ConnInit ==
    /\ backend \in Backends \ {"custom"}
    /\ \E text \in ConnTexts : table = NewTableOf(text)
    /\ curIdx = 1
    /\ Init0 /\ LifeDone /\ DynIdle

ConnNext ==
    \/ ConnPublish \/ ConnAccept \/ ConnMatch \/ ConnSniLookup \/ ConnHttpLookup

ConnSpec == ConnInit /\ [][ConnNext]_vars

----------------------------------------------------------------------------
(* Properties of the config merger                                         *)

EventOps == SubSeq(mlog, evStart.loglen + 1, Len(mlog))
HasOp(op) == \E i \in 1..Len(EventOps) : EventOps[i].op = op
LastOp == IF mlog = <<>> THEN None ELSE mlog[Len(mlog)].op
CountOp(op) == Cardinality({i \in 1..Len(mlog) : mlog[i].op = op})

(* C1: when route.NewTable fails on the combined text of an event,         *)
(* route.SetTable is not called for that event: the current table and      *)
(* lastTable are what they were when the event was received.               *)
C1_ParseFailureKeepsTable ==
    HasOp("newtable_error") =>
        /\ ~HasOp("settable")
        /\ table = evStart.table
        /\ curIdx = evStart.idx
        /\ lastTable = evStart.lastTable

C1_Witness ==
    /\ HasOp("newtable_error") /\ pc = "select" /\ curIdx >= 1
    /\ table.routes # EmptyRoutes

(* C2 as stated: no combined text is published twice during a run.         *)
C2_NoTextPublishedTwice ==
    \A i, j \in 1..Len(published) : i # j => published[i] # published[j]

(* C2 amended: no combined text is published twice in a row; every         *)
(* publication's text differs from the text of the publication before it.  *)
C2_NoConsecutiveRepublish ==
    \A i \in 1..(Len(published) - 1) : published[i] # published[i+1]

C2_Witness ==
    /\ Len(published) >= 3
    /\ published[1] = published[3]
    /\ pc = "select"

(* C3: close(first) is executed at most once, with a non-custom backend    *)
(* only after a route.SetTable, and main does not enter startServers (no   *)
(* listener adapter is spawned) before first has been closed.              *)
C3_FirstTableReadyOnce ==
    /\ firstClosed <= 1
    /\ (backend # "custom" /\ firstClosed >= 1) => curIdx >= 1
    /\ (mainPc # "wait" \/ spawned # {}) => firstClosed = 1

C3_Witness ==
    /\ backend # "custom" /\ spawned # {} /\ curIdx >= 2 /\ CountOp("logroutes") >= 2

(* C4: a Lookup that starts after some Lookup on the same listener has     *)
(* loaded table number n never loads a table published before number n.    *)
C4_MonotoneVisibility ==
    /\ lastLoad.idx >= lastLoad.floor
    /\ \A r \in Requests : reqPc[r] = "started" => reqFloor[r] <= curIdx

C4_Witness ==
    /\ lastLoad.floor >= 1 /\ lastLoad.idx > lastLoad.floor
    /\ seenMax[lastLoad.listener] = lastLoad.idx

RECURSIVE IsSubseq(_, _)
IsSubseq(a, b) ==
    IF a = <<>> THEN TRUE
    ELSE IF b = <<>> THEN FALSE
    ELSE IF Head(a) = Head(b) THEN IsSubseq(Tail(a), Tail(b))
    ELSE IsSubseq(a, Tail(b))

ObservedTexts == [i \in 1..Len(observed) |-> observed[i].text]

(* C5: at most one received event is being processed at any time (the next *)
(* event is received only when the previous one is finished), and the      *)
(* published texts are a subsequence of the observed combined texts.       *)
C5_SerializedInOrder ==
    /\ inProgress <= 1
    /\ (inProgress = 0) <=> (pc = "select")
    /\ IsSubseq(published, ObservedTexts)
    /\ pc \in {"aliases", "newtable", "settable"} =>
           nextTable = observed[Len(observed)].text

C5_Witness ==
    /\ Len(published) >= 2 /\ Len(observed) >= 3 /\ pc = "select"
    /\ published[1] # published[2]

Accepted == Cardinality({i \in 1..Len(observed) : observed[i].text # observed[i].last})
StreamQuiet == quiet /\ svcChan = <<>> /\ manChan = <<>>

Evaluations(op) == Cardinality({i \in 1..Len(mlog) : mlog[i].op = op})

(* C6: every received event whose combined text differs from the last      *)
(* applied text gets exactly one ParseAliases/Register and one NewTable,   *)
(* and when the streams go quiet after a text that parses, the current     *)
(* table eventually is the table built from that text.                     *)
C6_NoPublicationLost ==
    /\ [](pc = "select" =>
            /\ Evaluations("register") = Accepted
            /\ Evaluations("newtable") + Evaluations("newtable_error") = Accepted)
    /\ (StreamQuiet /\ observed # <<>> /\ NewTableOk(latestSvc \o <<NL>> \o latestMan))
          ~> (table.src = latestSvc \o <<NL>> \o latestMan /\ pc = "select")

C6_Witness ==
    /\ StreamQuiet /\ Len(observed) >= 3 /\ pc = "select"
    /\ table.src = latestSvc \o <<NL>> \o latestMan
    /\ Accepted >= 2 /\ Accepted < Len(observed)

(* C7: an event whose combined text equals the last applied text is        *)
(* skipped: no Register, no NewTable, no SetTable, no diff log, and        *)
(* lastTable and the current table stay as they were.                      *)
C7_SkipUnchangedText ==
    /\ pc \in {"aliases", "newtable", "settable"} => nextTable # LastApplied
    /\ LastOp = "skip" =>
          /\ observed[Len(observed)].text = LastApplied
          /\ Len(mlog) = evStart.loglen + 1
          /\ table = evStart.table /\ curIdx = evStart.idx
          /\ lastTable = evStart.lastTable
          /\ registered = evStart.registered

C7_Witness == LastOp = "skip" /\ curIdx >= 1 /\ Len(observed) >= 2

(* C8: the text evaluated for an event is the latest service text, a       *)
(* newline, then the latest manual text; a message on one stream leaves    *)
(* the remembered value of the other stream unchanged.                     *)
C8_CombinedText ==
    /\ svccfg = latestSvc /\ mancfg = latestMan
    /\ observed # <<>> =>
          /\ observed[Len(observed)].text = latestSvc \o <<NL>> \o latestMan
          /\ nextTable = latestSvc \o <<NL>> \o latestMan

C8_Witness ==
    /\ Len(observed) >= 2 /\ latestSvc # <<>> /\ latestMan # <<>>
    /\ latestSvc # latestMan

----------------------------------------------------------------------------
(* Properties of the shutdown handler                                      *)

NotProfStop(op) == op # "prof_stop"
HandlerCalls == SelectSeq(sigLog, NotProfStop)

IsPrefix(a, b) == Len(a) <= Len(b) /\ a = SubSeq(b, 1, Len(a))

(* C9: the handler sets shuttingDown, then calls proxy.Shutdown and waits  *)
(* for its return, then calls DeregisterAll; DeregisterAll is never called *)
(* before proxy.Shutdown has returned, and never when registry.Default was *)
(* found nil or no registry was ever created.                              *)
C9_ShutdownOrder ==
    /\ \/ IsPrefix(HandlerCalls, <<"flag", "shutdown_call", "shutdown_return",
                                   "has_registry", "deregister_all">>)
       \/ HandlerCalls = <<"flag", "shutdown_call", "shutdown_return", "no_registry">>
       \/ HandlerCalls = <<"flag", "shutdown_call", "shutdown_return",
                           "has_registry", "nil_panic">>
    /\ (shuttingDown = 1) <=> ("flag" \in Range(sigLog))
    /\ "deregister_all" \in Range(sigLog) => everInit
    /\ (sigPc = "returned" /\ ~everInit) => "no_registry" \in Range(sigLog)

C9_Witness ==
    /\ "deregister_all" \in Range(sigLog) /\ sigPc = "returned"
    /\ initPc = "exit1"

----------------------------------------------------------------------------
(* Properties of the tcp-dynamic listener loop                             *)

TickDone == dynPc = "sleep" /\ ticks >= 1

(* addresses of the backend ports of tcp-scheme targets *)
BackendTcpAddrs(t) ==
    {Addr(tg.URL.Port) : tg \in {x \in UNION {AllTargets(t.routes[h]) : h \in DOMAIN t.routes} :
                                    x.URL.Scheme = "tcp"}}

(* addresses of the ports of host keys host:port that have targets, all tcp *)
HostTcpAddrs(t) ==
    {Addr(h[2]) : h \in {k \in DOMAIN t.routes :
                            /\ Len(k) > 1
                            /\ AllTargets(t.routes[k]) # {}
                            /\ \A tg \in AllTargets(t.routes[k]) : tg.URL.Scheme = "tcp"}}

----------------------------------------------------------------------------
(* Properties of the tcp-dynamic close step                                *)

(* proxy.CloseProxy has been called for exactly the ports of the previous  *)
(* tick that are missing from this tick's set                              *)
ClosedExactlyDropped ==
    dynPc \in {"probe", "probeClose"} \/ TickDone =>
        /\ Range(closedThisTick) = Range(prevPorts) \ Range(ports)
        /\ Len(closedThisTick) = Cardinality(Range(closedThisTick))

(* C11: on each refresh tick CloseProxy is called for exactly the ports    *)
(* that were in the previous tick's set and are not in the current one, a  *)
(* port still in the set is never closed, and once the tick that dropped a *)
(* port is over no dynamic listener is left on a port outside the set.     *)
C11_DroppedPortsClosed ==
    /\ ClosedExactlyDropped
    /\ \A i \in 1..Len(closedThisTick) : closedThisTick[i] \notin Range(ports)
    /\ TickDone => \A a \in AllAddrs : portHolder[a] = "dyn" => a \in Range(lastPorts)

----------------------------------------------------------------------------
(* Properties of the startup loops                                         *)

IbFailed == {"create_failed", "register_failed"}
IbEnded  == {"running", "fatal", "exit1"}

(* C12: initBackend returns only after NewBackend and Register(nil) have   *)
(* both succeeded; a failure observed at or before the deadline leads to   *)
(* the retry sleep and one observed after it is fatal; an unknown backend  *)
(* is fatal; the exit with code 1 happens only with the shutdown flag set; *)
(* and once it has started the loop always ends in return, fatal or exit.  *)
C12_InitBackendTerminates ==
    /\ [](initPc = "running" => ibLast = "registered" /\ registryDefault = "backend")
    /\ [](initPc = "b_register" => ibLast = "created" /\ registryDefault = "backend")
    /\ [](initPc = "b_sleep" => ibLast \in IbFailed /\ ibFailAt <= deadline)
    /\ [](initPc = "fatal" /\ ibLast \in IbFailed => ibFailAt > deadline)
    /\ [](ibLast = "unknown_backend" => initPc = "fatal" /\ backend \notin AllBackends)
    /\ [](initPc = "exit1" => shuttingDown > 0)
    /\ (initPc = "b_start") ~> (initPc \in IbEnded)

C12_Witness ==
    /\ initPc = "fatal" /\ ibLast = "register_failed"
    /\ timeout >= 1 /\ ibFailAt > deadline

(* C13: in both loops the retry sleep is entered only from a failed        *)
(* attempt, and the only ways out of it are the exit with code 1 when the  *)
(* shutdown flag is set and the next attempt when it is not; an attempt is *)
(* entered only from the start of the loop or from that check, and nothing *)
(* follows the exit.                                                       *)
C13_FlagCheckedAfterSleep ==
    [][/\ initPc = "m_sleep" /\ initPc' # initPc =>
              initPc' = IF shuttingDown > 0 THEN "exit1" ELSE "m_attempt"
       /\ initPc = "b_sleep" /\ initPc' # initPc =>
              initPc' = IF shuttingDown > 0 THEN "exit1" ELSE "b_attempt"
       /\ initPc' = "m_attempt" /\ initPc' # initPc => initPc \in {"m_start", "m_sleep"}
       /\ initPc' = "b_attempt" /\ initPc' # initPc => initPc \in {"b_start", "b_sleep"}
       /\ initPc' = "m_sleep" /\ initPc' # initPc => initPc = "m_attempt"
       /\ initPc' = "b_sleep" /\ initPc' # initPc => initPc \in {"b_attempt", "b_register"}
       /\ initPc = "exit1" => initPc' = "exit1" /\ ibLast' = ibLast]_vars

C13_Witness ==
    /\ initPc = "exit1" /\ shuttingDown > 0
    /\ ibLast = "register_failed" /\ ibFailAt <= deadline

----------------------------------------------------------------------------
(* Properties of the wait for the first table                              *)

(* C14: startup never waits forever for the first table: main eventually   *)
(* leaves `<-first`, either into startServers or because the process has   *)
(* exited, also when no combined text ever parses or no event arrives.     *)
C14_StartupNeverBlocks == <>(mainPc # "wait")

----------------------------------------------------------------------------
(* Properties of the https+tcp+sni connections                             *)

(* opts["proto"] when that key is present, otherwise the URL scheme *)
EffectiveProto(t) == IF "proto" \in DOMAIN t.Opts THEN t.Opts["proto"] ELSE t.URL.Scheme

Matched(c) == connPc[c] \in {"sni", "http", "done"}

(* C15: the matcher's result for a connection is true exactly when the     *)
(* LookupHost on the table it loaded returned a non-nil target whose       *)
(* effective protocol is "tcp"; the connection goes to the TCP+SNI         *)
(* forwarder when the result is true and to the HTTP forwarder otherwise.  *)
C15_MatcherIffTcp ==
    \A c \in Conns : Matched(c) =>
        LET m == connMatch[c]
        IN  /\ m.target \in LookupHost(NewTableOf(m.src), connHost[c])
            /\ m.result <=> (m.target # NilTarget /\ EffectiveProto(m.target) = "tcp")
            /\ connPc[c] = "sni" => m.result
            /\ connPc[c] = "http" => ~m.result
            /\ connPc[c] = "done" => (connFwd[c].kind = "sni" <=> m.result)

C15_Witness ==
    \E c \in Conns :
        /\ connPc[c] = "done" /\ connFwd[c].kind = "sni"
        /\ connMatch[c].target # NilTarget
        /\ connMatch[c].target.URL.Scheme = "http"
        /\ connMatch[c].target.Opts = ProtoOpt("tcp")

(* C16: a connection loads the current table once and bases all its       *)
(* decisions on that snapshot: the forwarder's lookup sees the table that  *)
(* the matcher saw.                                                        *)
C16_OneSnapshotPerConnection ==
    \A c \in Conns : connPc[c] = "done" => connFwd[c].idx = connMatch[c].idx

----------------------------------------------------------------------------
(* Properties of the alias forwarding                                      *)

RegisterOps == {i \in 1..Len(mlog) : mlog[i].op = "register"}

(* C17: every combined text that is not skipped has its aliases passed to  *)
(* Register as the very next step, before NewTable and SetTable run for    *)
(* it, whether or not ParseAliases reported an error and whether or not    *)
(* NewTable then fails; so the aliases last passed to Register are those   *)
(* of the most recently evaluated text.                                    *)
C17_AliasesBeforeTable ==
    /\ \A i \in 1..Len(mlog) :
          /\ mlog[i].op = "receive" /\ i < Len(mlog) =>
                mlog[i+1].op = "register" /\ mlog[i+1].text = mlog[i].text
          /\ mlog[i].op \in {"newtable", "newtable_error"} =>
                i > 1 /\ mlog[i-1].op = "register" /\ mlog[i-1].text = mlog[i].text
          /\ mlog[i].op = "settable" =>
                i > 2 /\ mlog[i-2].op = "register" /\ mlog[i-2].text = mlog[i].text
    /\ pc = "aliases" <=> LastOp = "receive"
    /\ pc \in {"newtable", "settable", "logroutes"} => registered = ParseAliases(nextTable)
    /\ registered = IF RegisterOps = {} THEN {}
                    ELSE ParseAliases(mlog[CHOOSE i \in RegisterOps :
                                              \A j \in RegisterOps : j <= i].text)
    /\ pc # "aliases" /\ Evaluations("receive") > 0 =>
          registered = ParseAliases(
              mlog[CHOOSE i \in 1..Len(mlog) :
                      /\ mlog[i].op = "receive"
                      /\ \A j \in 1..Len(mlog) : mlog[j].op = "receive" => j <= i].text)

C17_Witness ==
    /\ pc = "select" /\ LastOp = "newtable_error"
    /\ ParseAliasesErr(nextTable)
    /\ registered = {"L"} /\ evStart.registered = {}
    /\ curIdx >= 1 /\ ParseAliases(table.src) = {}

----------------------------------------------------------------------------
(* Properties of the glob cache                                            *)

(* C18: the glob cache is process-wide: at most one cache is ever made,    *)
(* every listener that has a proxy holds that same cache, and once         *)
(* startServers is through exactly one exists.                             *)
C18_OneGlobCache ==
    /\ globCaches <= 1
    /\ \A k, l \in spawned :
          MakesProxy(Listen[k]) /\ MakesProxy(Listen[l]) => globCacheOf[k] = globCacheOf[l]
    /\ mainPc = "serving" => globCaches = 1

----------------------------------------------------------------------------
(* Properties of empty tables                                              *)

IsEmptyText(text) == NewTableOk(text) /\ NewTableOf(text).routes = EmptyRoutes

(* C19: a combined text that parses into an empty table is published like  *)
(* any other and replaces the current table; the first event is never      *)
(* skipped, its text holding at least the newline, and when both streams   *)
(* are empty its empty table is published and first-table-ready is         *)
(* signalled.                                                              *)
C19_EmptyTablePublished ==
    backend # "custom" =>
        /\ \A i \in 1..Len(mlog) :
              mlog[i].op = "register" /\ IsEmptyText(mlog[i].text) =>
                  /\ i + 1 <= Len(mlog) => mlog[i+1].op = "newtable"
                  /\ i + 2 <= Len(mlog) =>
                        mlog[i+2].op = "settable" /\ mlog[i+2].text = mlog[i].text
        /\ pc \in {"logroutes", "select"} /\ LastOp \in {"settable", "logroutes"} =>
              /\ table = NewTableOf(nextTable)
              /\ published[Len(published)] = nextTable
        /\ mlog # <<>> => mlog[1].op = "receive" /\ mlog[1].text # <<>>
        /\ Len(mlog) >= 5 /\ mlog[1].text = <<NL>> =>
              /\ published[1] = <<NL>>
              /\ firstClosed = 1
              /\ mlog[5].op = "logroutes"

C19_Witness ==
    /\ backend # "custom" /\ pc = "select" /\ LastOp = "logroutes"
    /\ published[1] = <<NL>> /\ firstClosed = 1
    /\ curIdx >= 3 /\ table.routes = EmptyRoutes
    /\ evStart.table.routes # EmptyRoutes

----------------------------------------------------------------------------
(* Properties of the dynamic listener starts                               *)

(* listener goroutines started for an address and still alive *)
Listeners(a) == pendingStarts[a] + (IF portHolder[a] = "dyn" THEN 1 ELSE 0)

(* C20: under every interleaving of the tick loop and the listener         *)
(* goroutines, at most one listener goroutine exists for a port that stays *)
(* in the port set, and no listener start fails fatally on bind because    *)
(* the loop's probe or another dynamic listener holds the port.            *)
C20_OneListenerPerHeldPort ==
    /\ \A a \in AllAddrs : Listeners(a) <= 1
    /\ fatalHolder \notin {"dyn", "probe"}

----------------------------------------------------------------------------
(* Properties of the custom backend                                        *)

(* C21: with the custom backend watchBackend never calls SetTable or       *)
(* Register; it takes the messages of the service stream one by one,       *)
(* signals first-table-ready on the first of them whether it is "OK" or an *)
(* error message, so that main goes on to startServers only after a first  *)
(* message but also after a failed one, and logs an error for exactly the  *)
(* messages that are not "OK".                                             *)
C21_CustomBackendOnlySignals ==
    backend = "custom" =>
        /\ published = <<>> /\ curIdx = 0 /\ table = InitialTable
        /\ registered = {} /\ observed = <<>>
        /\ pc = "select" /\ lastTable = <<>> /\ nextTable = <<>>
        /\ \A i \in 1..Len(mlog) :
              /\ mlog[i].op \in {"custom_ok", "custom_error"}
              /\ mlog[i].op = "custom_error" <=> mlog[i].text # <<"OK">>
        /\ Len(mlog) + Len(svcChan) = nSent
        /\ mlog # <<>> => customBE = mlog[Len(mlog)].text[1]
        /\ firstClosed = IF mlog = <<>> THEN 0 ELSE 1
        /\ onceDone <=> mlog # <<>>
        /\ mainPc # "wait" => mlog # <<>>

C21_Witness ==
    /\ backend = "custom"
    /\ Len(mlog) >= 2
    /\ mlog[1].op = "custom_error" /\ mlog[2].op = "custom_ok"
    /\ firstClosed = 1 /\ mainPc = "serving"
    /\ table = InitialTable

====
